---- MODULE Spec2Model ----
(***************************************************************************)
(* A model of changement: the arena graph of src/graph.rs, the version run *)
(* of src/main.rs (change records, bump calculation, manifest update),     *)
(* Project::new of src/project.rs and Project::load of src/workspace.rs.   *)
(***************************************************************************)
EXTENDS Integers, Sequences, FiniteSets, TLC

VARIABLES
    \* ---- Graph<T> (src/graph.rs) ----
    nodes,          \* Vec<Node<T>>: sequence of [data, first_edge]
    edges,          \* Vec<Edge>: sequence of [target, direction, next_edge]
    lastOp,         \* the last graph call and what it returned
    nodeLog,        \* history: the add_node calls, [returned, data]
    edgeLog,        \* history: the add_edge calls that returned, [source, target, direction]
    \* ---- version run (src/main.rs) ----
    pc,             \* position inside version_command / calculate_version_bumps
    storeExists,    \* whether the .changelog directory exists
    store,          \* the files of .changelog: file name -> content
    disk,           \* the package.json files: package name -> manifest
    disk0,          \* history: the manifests before the run
    store0,         \* history: the files of .changelog before the run
    rootWorkspaces, \* whether the root package.json has a "workspaces" field
    filter,         \* the --filter option: NoFilter or a set of names
    changes,        \* Vec<ChangeEntry> read from the store
    packages,       \* HashMap<String, PackageJson> of the run
    version_bumps,  \* HashMap<String, BumpType> of the run
    todo,           \* keys of version_bumps apply_version_bumps has still to visit
    removeAt,       \* index into changes of the next file the removal loop deletes
    writes,         \* history: how often each manifest was written
    scans,          \* history: the iteration counter when the while loop ended
    result,         \* what the run (or the calculation) returned
    \* ---- the directory tree and Project::new (src/project.rs) ----
    tree,           \* the directory given and the package.json files under it
    ppc,            \* position inside Project::new
    workspaces,     \* Vec<(NodeIndex, Vec<String>)> of Project::new
    walked,         \* package.json paths the first walk has yielded so far
    linkAt,         \* index into workspaces of the second loop
    \* ---- Project::load (src/workspace.rs) ----
    lpc,            \* position inside Project::load
    package_json_files, \* the files discover_workspaces has still to visit
    callStack,      \* the nested load_workspace calls, the innermost last
    loaded          \* Vec<Workspace> of discover_workspaces

graphVars == <<nodes, edges, lastOp, nodeLog, edgeLog>>

runVars == <<pc, storeExists, store, disk, disk0, store0, rootWorkspaces, filter,
             changes, packages, version_bumps, todo, removeAt, writes, scans, result>>

projVars == <<ppc, workspaces, walked, linkAt>>

loadVars == <<lpc, package_json_files, callStack, loaded>>

fsVars == <<tree, ppc, workspaces, walked, linkAt, lpc, package_json_files, callStack,
           loaded>>

vars == <<nodes, edges, lastOp, nodeLog, edgeLog, pc, storeExists, store, disk, disk0,
          store0, rootWorkspaces, filter, changes, packages, version_bumps, todo,
          removeAt, writes, scans, result, tree, ppc, workspaces, walked, linkAt,
          lpc, package_json_files, callStack, loaded>>

\* Option<usize>::None
None == -1

(***************************************************************************)
(* Bounds of the graph model.                                              *)
(***************************************************************************)
MaxNodes == 2

MaxEdges == 3

\* Node payloads (the T of Graph<T>).
Payloads == {"a", "b"}

Directions == {"Outgoing", "Incoming"}

(***************************************************************************)
(* src/graph.rs                                                            *)
(***************************************************************************)

\* Graph::new
GraphNew ==
    /\ nodes = <<>>
    /\ edges = <<>>
    /\ lastOp = [op |-> "new"]
    /\ nodeLog = <<>>
    /\ edgeLog = <<>>

\* Indices are 0-based in the source; element i of a Vec is element i+1 of the
\* sequence that models it.
At(vec, i) == vec[i + 1]

InRange(vec, i) == i >= 0 /\ i < Len(vec)

\* Graph::add_node: the index returned and the vector after the push.
add_node_index(ns) == Len(ns)

add_node_nodes_front(ns, data) == <<[data |-> data, first_edge |-> None]>> \o ns

add_node_nodes(ns, data) == Append(ns, [data |-> data, first_edge |-> None])

\* Graph::get_node: Vec::get, None when the index is out of range.
get_node(ns, index) ==
    IF InRange(ns, index) THEN [some |-> TRUE, node |-> At(ns, index)]
    ELSE [some |-> FALSE]

\* add_edge that forgets the node's older edges.
add_edge_unlinked(ns, es, source, target, direction) ==
    IF ~InRange(ns, source)
    THEN [fault |-> TRUE, nodes |-> ns, edges |-> es]
    ELSE [fault |-> FALSE,
          edges |-> Append(es, [target |-> target, direction |-> direction,
                                next_edge |-> None]),
          nodes |-> [ns EXCEPT ![source + 1].first_edge = Len(es)]]

\* add_edge that pushes the edge before it looks the source up.
add_edge_push_first(ns, es, source, target, direction) ==
    IF ~InRange(ns, source)
    THEN [fault |-> TRUE, nodes |-> ns,
          edges |-> Append(es, [target |-> target, direction |-> direction,
                                next_edge |-> None])]
    ELSE [fault |-> FALSE,
          edges |-> Append(es, [target |-> target, direction |-> direction,
                                next_edge |-> At(ns, source).first_edge]),
          nodes |-> [ns EXCEPT ![source + 1].first_edge = Len(es)]]

\* add_edge that makes the new edge the first edge of the target node.
add_edge_on_target(ns, es, source, target, direction) ==
    IF ~InRange(ns, source)
    THEN [fault |-> TRUE, nodes |-> ns, edges |-> es]
    ELSE [fault |-> FALSE,
          edges |-> Append(es, [target |-> target, direction |-> direction,
                                next_edge |-> At(ns, source).first_edge]),
          nodes |-> [ns EXCEPT ![target + 1].first_edge = Len(es)]]

\* add_edge that links the new edge to the edge pushed last, whatever node
\* that one belongs to.
add_edge_cross_link(ns, es, source, target, direction) ==
    IF ~InRange(ns, source)
    THEN [fault |-> TRUE, nodes |-> ns, edges |-> es]
    ELSE [fault |-> FALSE,
          edges |-> Append(es, [target |-> target, direction |-> direction,
                                next_edge |-> IF es = <<>> THEN None ELSE Len(es) - 1]),
          nodes |-> [ns EXCEPT ![source + 1].first_edge = Len(es)]]

\* Graph::add_edge. Line 33 indexes self.nodes[source] before anything is pushed:
\* an out-of-range source panics there (fault) with both vectors untouched.
\* Otherwise the new edge records the node's old first_edge as its next_edge and
\* becomes the node's first_edge. The target is never checked.
add_edge(ns, es, source, target, direction) ==
    LET edge_index == Len(es) IN
    IF ~InRange(ns, source)
    THEN [fault |-> TRUE, nodes |-> ns, edges |-> es]
    ELSE [fault |-> FALSE,
          edges |-> Append(es, [target |-> target, direction |-> direction,
                                next_edge |-> At(ns, source).first_edge]),
          nodes |-> [ns EXCEPT ![source + 1].first_edge = edge_index]]

\* Edges::next: one call on an iterator whose current_edge_index is cur.
\* Returns the item (None for Option::None) and the new current_edge_index.
RECURSIVE SkipToMatch(_, _, _)
SkipToMatch(es, edge_num, direction) ==
    LET edge == At(es, edge_num) IN
    IF direction # edge.direction
    THEN IF edge.next_edge # None
         THEN SkipToMatch(es, edge.next_edge, direction)
         ELSE [item |-> None, cur |-> None]
    ELSE [item |-> edge.target, cur |-> edge.next_edge]

EdgesNext(es, cur, direction) ==
    IF cur = None THEN [item |-> None, cur |-> None]
    ELSE SkipToMatch(es, cur, direction)

\* Iterator::collect over Graph::edges(source, direction): next() until None.
RECURSIVE CollectFrom(_, _, _)
CollectFrom(es, cur, direction) ==
    LET r == EdgesNext(es, cur, direction) IN
    IF r.item = None THEN <<>>
    ELSE <<r.item>> \o CollectFrom(es, r.cur, direction)

EdgesOf(ns, es, source, direction) ==
    CollectFrom(es, At(ns, source).first_edge, direction)

\* ---- the graph's operations as actions ----

AddNode ==
    /\ Len(nodes) < MaxNodes
    /\ \E data \in Payloads :
          /\ nodes' = add_node_nodes(nodes, data)
          /\ lastOp' = [op |-> "add_node", returned |-> add_node_index(nodes)]
          /\ nodeLog' = Append(nodeLog, [returned |-> add_node_index(nodes), data |-> data])
    /\ UNCHANGED <<edges, edgeLog>>
    /\ UNCHANGED runVars
    /\ UNCHANGED fsVars

\* add_edge with any source, the first out-of-range index included, and any
\* existing node as the target.
AddEdge ==
    /\ Len(edges) < MaxEdges
    /\ \E source \in 0 .. Len(nodes), target \in 0 .. (Len(nodes) - 1), direction \in Directions :
          LET r == add_edge(nodes, edges, source, target, direction) IN
          /\ edges' = r.edges
          /\ nodes' = r.nodes
          /\ lastOp' = [op |-> "add_edge", fault |-> r.fault, source |-> source]
          /\ edgeLog' = IF r.fault THEN edgeLog
                        ELSE Append(edgeLog, [source |-> source, target |-> target,
                                              direction |-> direction])
    /\ UNCHANGED nodeLog
    /\ UNCHANGED runVars
    /\ UNCHANGED fsVars

GraphNext == AddNode \/ AddEdge

(***************************************************************************)
(* src/main.rs: severities and the bump calculation                        *)
(***************************************************************************)

\* The packages that have a package.json: "a" is the root manifest, "b" and
\* "c" sit in direct subdirectories. "x" is a name no manifest carries.
Pkgs == {"a", "b", "c"}

Names == Pkgs \cup {"x"}

RootPkg == "a"

\* enum BumpType
BumpTypes == {"Major", "Minor", "Patch"}

\* Option<&BumpType>::None
NoBump == "none"

\* The comparison with equal severities counted as greater.
is_greater_than_or_equal(self, other) ==
    \/ self = other
    \/ self = "Major" /\ other \in {"Minor", "Patch"}
    \/ self = "Minor" /\ other = "Patch"

\* BumpType::is_greater_than
is_greater_than(self, other) ==
    \/ self = "Major" /\ other \in {"Minor", "Patch"}
    \/ self = "Minor" /\ other = "Patch"

\* HashMap::insert
Insert(map, key, value) ==
    [k \in DOMAIN map \cup {key} |-> IF k = key THEN value ELSE map[k]]

EmptyMap == [k \in {} |-> "Patch"]

\* The chain without the peerDependencies.
DepNames_no_peer(package_json) ==
    package_json.dependencies \cup package_json.dev_dependencies

\* The keys of dependencies, devDependencies and peerDependencies, chained
\* (main.rs 326-328).
DepNames(package_json) ==
    package_json.dependencies \cup package_json.dev_dependencies
        \cup package_json.peer_dependencies

\* The first pass without the comparison: the pair read last wins.
DirectUpdate_overwrite(bumps, pkgs, package_name, bump_type) ==
    IF package_name \in DOMAIN pkgs THEN Insert(bumps, package_name, bump_type)
    ELSE bumps

\* The first pass without the contains_key test.
DirectUpdate_unchecked(bumps, pkgs, package_name, bump_type) ==
    IF package_name \notin DOMAIN bumps \/ is_greater_than(bump_type, bumps[package_name])
    THEN Insert(bumps, package_name, bump_type)
    ELSE bumps

\* First pass, the body of the inner loop (main.rs 307-312): one
\* (package_name, bump_type) pair of one change.
DirectUpdate(bumps, pkgs, package_name, bump_type) ==
    IF package_name \in DOMAIN pkgs
    THEN IF package_name \notin DOMAIN bumps \/ is_greater_than(bump_type, bumps[package_name])
         THEN Insert(bumps, package_name, bump_type)
         ELSE bumps
    ELSE bumps

\* First pass, the inner loop over one change's HashMap. Its keys are distinct
\* and each pair touches only its own key, so the iteration order of the
\* HashMap does not show in the result.
RECURSIVE DirectChange(_, _, _, _)
DirectChange(bumps, pkgs, change_packages, keys) ==
    IF keys = {} THEN bumps
    ELSE LET k == CHOOSE n \in keys : TRUE IN
         DirectChange(DirectUpdate(bumps, pkgs, k, change_packages[k]), pkgs,
                      change_packages, keys \ {k})

\* First pass, the outer loop over the changes in the order they were read,
\* from change i on.
RECURSIVE DirectPass(_, _, _, _)
DirectPass(bumps, pkgs, chs, i) ==
    IF i > Len(chs) THEN bumps
    ELSE DirectPass(DirectChange(bumps, pkgs, chs[i].packages, DOMAIN chs[i].packages),
                    pkgs, chs, i + 1)

\* Second pass, the inner loop for one package (main.rs 326-339): every
\* dependency name that has a bump in the snapshot current_bumps is compared
\* with the bump the package holds now. `held` is NoBump while it holds none.
RECURSIVE DepLoop(_, _, _)
DepLoop(held, current_bumps, dep_names) ==
    IF dep_names = {} THEN held
    ELSE LET dep_name == CHOOSE n \in dep_names : TRUE
             rest == dep_names \ {dep_name} IN
         IF dep_name \in DOMAIN current_bumps
         THEN LET dep_bump == current_bumps[dep_name] IN
              IF held = NoBump \/ is_greater_than(dep_bump, held)
              THEN DepLoop(dep_bump, current_bumps, rest)
              ELSE DepLoop(held, current_bumps, rest)
         ELSE DepLoop(held, current_bumps, rest)

\* Second pass, one full scan (main.rs 322-340). Dependencies are read from the
\* snapshot taken at the start of the scan and a package's loop writes only the
\* package's own key, so the scan is the same for every HashMap order.
Scan(bumps, pkgs) ==
    LET current_bumps == bumps
        held(p) == IF p \in DOMAIN bumps THEN bumps[p] ELSE NoBump
        new(p) == DepLoop(held(p), current_bumps, DepNames(pkgs[p]))
        keys == DOMAIN bumps \cup {p \in DOMAIN pkgs : new(p) # NoBump}
    IN  [k \in keys |-> IF k \in DOMAIN pkgs THEN new(k) ELSE bumps[k]]

\* The safety limit of the second pass (main.rs 319 and 343).
MaxIterations == 100

\* A second pass that scans once and stops.
TransitivePass_one_scan(bumps, pkgs, iteration, changed) ==
    [version_bumps |-> Scan(bumps, pkgs), iteration |-> iteration + 1]

\* Second pass, the while loop (main.rs 317-341): the state after the loop.
RECURSIVE TransitivePass(_, _, _, _)
TransitivePass(bumps, pkgs, iteration, changed) ==
    IF changed /\ iteration < MaxIterations
    THEN LET next == Scan(bumps, pkgs) IN
         TransitivePass(next, pkgs, iteration + 1, next # bumps)
    ELSE [version_bumps |-> bumps, iteration |-> iteration]

\* calculate_version_bumps without the test of the ceiling: the map is returned
\* as the last scan left it.
calculate_version_bumps_truncating(chs, pkgs) ==
    LET direct == DirectPass(EmptyMap, pkgs, chs, 1)
        after == TransitivePass(direct, pkgs, 0, TRUE)
    IN  [ok |-> TRUE, version_bumps |-> after.version_bumps,
         iteration |-> after.iteration]

\* calculate_version_bumps: the error or the map, and (for the record) the
\* value of `iteration` when the while loop ended.
calculate_version_bumps(chs, pkgs) ==
    LET direct == DirectPass(EmptyMap, pkgs, chs, 1)
        after == TransitivePass(direct, pkgs, 0, TRUE)
    IN  IF after.iteration >= MaxIterations
        THEN [ok |-> FALSE, error |-> "exceeded maximum iterations",
              iteration |-> after.iteration]
        ELSE [ok |-> TRUE, version_bumps |-> after.version_bumps,
              iteration |-> after.iteration]

(***************************************************************************)
(* src/main.rs: change records, versions, the version command              *)
(***************************************************************************)

\* BumpType::from_str: the token is lower-cased, then matched.
Lower(token) ==
    CASE token = "MAJOR" -> "major"
      [] token = "Minor" -> "minor"
      [] OTHER -> token

\* A from_str that takes every unknown token for a patch.
BumpFromStr_lenient(token) ==
    CASE Lower(token) = "major" -> [ok |-> TRUE, bump |-> "Major"]
      [] Lower(token) = "minor" -> [ok |-> TRUE, bump |-> "Minor"]
      [] OTHER -> [ok |-> TRUE, bump |-> "Patch"]

\* BumpType::from_str on the lower-cased token (main.rs 39-46).
BumpFromStr(token) ==
    CASE Lower(token) = "major" -> [ok |-> TRUE, bump |-> "Major"]
      [] Lower(token) = "minor" -> [ok |-> TRUE, bump |-> "Minor"]
      [] Lower(token) = "patch" -> [ok |-> TRUE, bump |-> "Patch"]
      [] OTHER -> [ok |-> FALSE]

\* parse_changelog_file, the loop over the front-matter lines (main.rs 224-240):
\* each line inserts into the HashMap, a later line for the same name replaces
\* the earlier one, an invalid token ends the parse with an error.
RECURSIVE ParseLines(_, _, _)
ParseLines(lines, i, map) ==
    IF i > Len(lines) THEN [ok |-> TRUE, packages |-> map]
    ELSE LET b == BumpFromStr(lines[i].token) IN
         IF b.ok THEN ParseLines(lines, i + 1, Insert(map, lines[i].name, b.bump))
         ELSE [ok |-> FALSE]

\* A parse that returns a change entry also for a front matter without pairs.
parse_changelog_file_keep_empty(file_path, content) ==
    IF content.header
    THEN LET r == ParseLines(content.lines, 1, EmptyMap) IN
         IF ~r.ok THEN [ok |-> FALSE]
         ELSE [ok |-> TRUE, some |-> TRUE,
               change |-> [packages |-> r.packages, file_path |-> file_path]]
    ELSE [ok |-> TRUE, some |-> FALSE]

\* A parse that reports a file without front matter as an error.
parse_changelog_file_strict(file_path, content) ==
    IF content.header
    THEN LET r == ParseLines(content.lines, 1, EmptyMap) IN
         IF ~r.ok THEN [ok |-> FALSE]
         ELSE IF r.packages # EmptyMap
              THEN [ok |-> TRUE, some |-> TRUE,
                    change |-> [packages |-> r.packages, file_path |-> file_path]]
              ELSE [ok |-> TRUE, some |-> FALSE]
    ELSE [ok |-> FALSE]

\* parse_changelog_file: Err, Ok(None) or Ok(Some(ChangeEntry)). content.header
\* says whether the regex ^---\n(.*?)\n--- finds a front matter, content.lines
\* are the name: token lines between the delimiters.
parse_changelog_file(file_path, content) ==
    IF content.header
    THEN LET r == ParseLines(content.lines, 1, EmptyMap) IN
         IF ~r.ok THEN [ok |-> FALSE]
         ELSE IF r.packages # EmptyMap
              THEN [ok |-> TRUE, some |-> TRUE,
                    change |-> [packages |-> r.packages, file_path |-> file_path]]
              ELSE [ok |-> TRUE, some |-> FALSE]
    ELSE [ok |-> TRUE, some |-> FALSE]

\* read_changelog_files over the directory entries in the order read_dir gave
\* them: entries without the md extension are passed over, the first parse
\* error ends the read.
RECURSIVE ReadEntries(_, _, _, _)
ReadEntries(files, order, i, acc) ==
    IF i > Len(order) THEN [ok |-> TRUE, changes |-> acc]
    ELSE LET path == order[i] IN
         IF files[path].md
         THEN LET r == parse_changelog_file(path, files[path]) IN
              IF ~r.ok THEN [ok |-> FALSE]
              ELSE IF r.some THEN ReadEntries(files, order, i + 1, Append(acc, r.change))
                   ELSE ReadEntries(files, order, i + 1, acc)
         ELSE ReadEntries(files, order, i + 1, acc)

read_changelog_files(files, order) == ReadEntries(files, order, 1, <<>>)

\* The orders in which read_dir may list a set of files.
Orders(S) ==
    {o \in [1 .. Cardinality(S) -> S] : \A i, j \in DOMAIN o : i # j => o[i] # o[j]}

\* semver Version::parse on a version string. A version string is modelled as
\* the sequence of its dot-separated numbers; exactly three parse.
VersionParse(str) ==
    IF Len(str) = 3
    THEN [ok |-> TRUE, major |-> str[1], minor |-> str[2], patch |-> str[3]]
    ELSE [ok |-> FALSE]

\* Version::to_string
VersionToString(v) == <<v.major, v.minor, v.patch>>

\* The match without the resets to 0.
BumpVersion_no_reset(current_version, bump_type) ==
    CASE bump_type = "Major" -> [current_version EXCEPT !.major = @ + 1]
      [] bump_type = "Minor" -> [current_version EXCEPT !.minor = @ + 1]
      [] bump_type = "Patch" -> [current_version EXCEPT !.patch = @ + 1]

\* The match of apply_version_bumps (main.rs 358-362).
BumpVersion(current_version, bump_type) ==
    CASE bump_type = "Major" ->
            [major |-> current_version.major + 1, minor |-> 0, patch |-> 0]
      [] bump_type = "Minor" ->
            [major |-> current_version.major, minor |-> current_version.minor + 1,
             patch |-> 0]
      [] bump_type = "Patch" ->
            [major |-> current_version.major, minor |-> current_version.minor,
             patch |-> current_version.patch + 1]

\* discover_workspace_packages: the manifests of the direct subdirectories, and
\* the root manifest unless it has a "workspaces" field.
discover_workspace_packages(manifests, root_workspaces) ==
    [n \in {p \in DOMAIN manifests : p # RootPkg \/ ~root_workspaces} |-> manifests[n]]

\* packages.retain under --filter (main.rs 168-174).
ApplyFilter(pkgs, flt) ==
    IF flt.some THEN [n \in {p \in DOMAIN pkgs : p \in flt.names} |-> pkgs[n]]
    ELSE pkgs

\* A removal loop that deletes the first change's file every time.
RemovedFile_first(chs, i) == chs[1].file_path

\* The files fs::remove_file is called on (main.rs 188-191), one per change.
RemovedFile(chs, i) == chs[i].file_path

\* ---- the version command as actions ----

\* version_command, lines 150-162: the store check and read_changelog_files.
ReadChangelog ==
    /\ pc = "start"
    /\ IF ~storeExists
       THEN /\ result' = "no_changelog_dir"
            /\ pc' = "done"
            /\ UNCHANGED changes
       ELSE \E order \in Orders(DOMAIN store) :
               LET r == read_changelog_files(store, order) IN
               IF ~r.ok
               THEN /\ result' = "invalid_bump_type"
                    /\ pc' = "done"
                    /\ UNCHANGED changes
               ELSE /\ changes' = r.changes
                    /\ IF r.changes = <<>>
                       THEN result' = "ok" /\ pc' = "done"
                       ELSE result' = result /\ pc' = "discover"
    /\ UNCHANGED <<storeExists, store, disk, disk0, rootWorkspaces, filter, packages,
                   version_bumps, todo, removeAt, writes>>
    /\ UNCHANGED <<store0, scans>>
    /\ UNCHANGED graphVars
    /\ UNCHANGED fsVars

\* version_command, lines 164-174: discovery and the --filter restriction.
Discover ==
    /\ pc = "discover"
    /\ packages' = ApplyFilter(discover_workspace_packages(disk, rootWorkspaces), filter)
    /\ pc' = "calculate"
    /\ UNCHANGED <<storeExists, store, disk, disk0, rootWorkspaces, filter, changes,
                   version_bumps, todo, removeAt, writes, result>>
    /\ UNCHANGED <<store0, scans>>
    /\ UNCHANGED graphVars
    /\ UNCHANGED fsVars

\* version_command, lines 176-182: calculate_version_bumps and the early return
\* on an empty map.
Calculate ==
    /\ pc = "calculate"
    /\ LET r == calculate_version_bumps(changes, packages) IN
       /\ scans' = r.iteration
       /\ IF ~r.ok
          THEN /\ result' = "max_iterations"
               /\ pc' = "done"
               /\ UNCHANGED <<version_bumps, todo>>
          ELSE /\ version_bumps' = r.version_bumps
               /\ todo' = DOMAIN r.version_bumps
               /\ IF r.version_bumps = EmptyMap
                  THEN result' = "ok" /\ pc' = "done"
                  ELSE result' = result /\ pc' = "apply"
    /\ UNCHANGED <<storeExists, store, disk, disk0, store0, rootWorkspaces, filter,
                   changes, packages, removeAt, writes>>
    /\ UNCHANGED graphVars
    /\ UNCHANGED fsVars

\* apply_version_bumps, one turn of its loop (main.rs 355-373) for a key the
\* HashMap iteration has not visited yet, in whatever order it visits them.
ApplyOne ==
    /\ pc = "apply"
    /\ \E package_name \in todo :
          LET bump_type == version_bumps[package_name] IN
          IF package_name \in DOMAIN packages
          THEN LET current_version == VersionParse(packages[package_name].version) IN
               IF ~current_version.ok
               THEN /\ result' = "invalid_version"
                    /\ pc' = "done"
                    /\ UNCHANGED <<packages, disk, writes, todo>>
               ELSE LET new_version == BumpVersion(current_version, bump_type)
                        updated == [packages[package_name] EXCEPT
                                        !.version = VersionToString(new_version)]
                    IN  /\ packages' = [packages EXCEPT ![package_name] = updated]
                        /\ disk' = [disk EXCEPT ![package_name] = updated]
                        /\ writes' = [writes EXCEPT ![package_name] = @ + 1]
                        /\ todo' = todo \ {package_name}
                        /\ UNCHANGED <<result, pc>>
          ELSE /\ todo' = todo \ {package_name}
               /\ UNCHANGED <<packages, disk, writes, result, pc>>
    /\ UNCHANGED <<storeExists, store, disk0, rootWorkspaces, filter, changes,
                   version_bumps, removeAt>>
    /\ UNCHANGED <<store0, scans>>
    /\ UNCHANGED graphVars
    /\ UNCHANGED fsVars

\* A removal loop that starts while manifests are still to be written.
ApplyReturn_early ==
    /\ pc = "apply"
    /\ pc' = "remove"
    /\ removeAt' = 1
    /\ UNCHANGED <<storeExists, store, disk, disk0, rootWorkspaces, filter, changes,
                   packages, version_bumps, todo, writes, result>>
    /\ UNCHANGED <<store0, scans>>
    /\ UNCHANGED graphVars
    /\ UNCHANGED fsVars

\* apply_version_bumps returns Ok: version_command goes on to the removal loop.
ApplyReturn ==
    /\ pc = "apply"
    /\ todo = {}
    /\ pc' = "remove"
    /\ removeAt' = 1
    /\ UNCHANGED <<storeExists, store, disk, disk0, rootWorkspaces, filter, changes,
                   packages, version_bumps, todo, writes, result>>
    /\ UNCHANGED <<store0, scans>>
    /\ UNCHANGED graphVars
    /\ UNCHANGED fsVars

\* version_command, lines 188-191: one fs::remove_file.
RemoveOne ==
    /\ pc = "remove"
    /\ removeAt <= Len(changes)
    /\ store' = [f \in DOMAIN store \ {RemovedFile(changes, removeAt)} |-> store[f]]
    /\ removeAt' = removeAt + 1
    /\ UNCHANGED <<pc, storeExists, disk, disk0, rootWorkspaces, filter, changes,
                   packages, version_bumps, todo, writes, result>>
    /\ UNCHANGED <<store0, scans>>
    /\ UNCHANGED graphVars
    /\ UNCHANGED fsVars

\* version_command, lines 193-194.
Finish ==
    /\ pc = "remove"
    /\ removeAt > Len(changes)
    /\ pc' = "done"
    /\ result' = "ok"
    /\ UNCHANGED <<storeExists, store, disk, disk0, rootWorkspaces, filter, changes,
                   packages, version_bumps, todo, removeAt, writes>>
    /\ UNCHANGED <<store0, scans>>
    /\ UNCHANGED graphVars
    /\ UNCHANGED fsVars

(***************************************************************************)
(* Inputs                                                                  *)
(***************************************************************************)

\* Change-record files a store holds at most.
MaxFiles == 2

\* Dependency declarations the packages make at most, all manifests together.
MaxDeps == 3

\* Packages of the longest dependency chain.
MaxChain == 101

NoFilter == [some |-> FALSE]

Line(name, token) == [name |-> name, token |-> token]

\* Front matters of change-record files.
LineSeqs ==
    { <<Line("a", "major")>>,
      <<Line("b", "Minor")>>,
      <<Line("x", "patch")>>,
      <<Line("a", "patch"), Line("b", "patch")>>,
      <<Line("b", "major"), Line("b", "patch")>>,
      <<Line("a", "feature")>>,
      <<>> }

FileContents ==
    {[md |-> TRUE, header |-> TRUE, lines |-> l] : l \in LineSeqs}
        \cup {[md |-> TRUE, header |-> FALSE, lines |-> <<Line("b", "Minor")>>],
              [md |-> FALSE, header |-> TRUE, lines |-> <<Line("a", "major")>>]}

Stores ==
    UNION {[S -> FileContents] : S \in SUBSET (1 .. MaxFiles)}

VersionStrings == {<<1, 2, 3>>, <<0, 9>>}

Manifest(name, version, deps, dev, peer) ==
    [name |-> name, version |-> version, dependencies |-> deps,
     dev_dependencies |-> dev, peer_dependencies |-> peer]

\* The category a declaration of `name` is made under, turned by rot.
CategoryOf(name, rot) ==
    LET idx == CASE name = "a" -> 0 [] name = "b" -> 1 [] name = "c" -> 2 [] OTHER -> 0
    IN  (idx + rot) % 3

\* The manifests of Pkgs with the declarations decl (pairs <<consumer, name>>).
Manifests(version, decl, rot) ==
    [p \in Pkgs |->
        Manifest(p, version[p],
                 {n \in Names : <<p, n>> \in decl /\ CategoryOf(n, rot) = 0},
                 {n \in Names : <<p, n>> \in decl /\ CategoryOf(n, rot) = 1},
                 {n \in Names : <<p, n>> \in decl /\ CategoryOf(n, rot) = 2})]

\* Dependency layouts of the version runs.
Layouts ==
    { {}, {<<"b", "a">>, <<"c", "b">>, <<"c", "x">>} }

Filters == {NoFilter, [some |-> TRUE, names |-> {"b", "x"}], [some |-> TRUE, names |-> {"a", "c"}]}

GraphIdle == GraphNew

\* No tree, and neither Project::new nor Project::load under way.
FsIdle ==
    /\ tree = <<>>
    /\ ppc = "idle"
    /\ workspaces = <<>>
    /\ walked = {}
    /\ linkAt = 0
    /\ lpc = "idle"
    /\ package_json_files = <<>>
    /\ callStack = <<>>
    /\ loaded = <<>>

RunIdle ==
    /\ FsIdle
    /\ pc = "idle"
    /\ storeExists = FALSE
    /\ store = <<>>
    /\ disk = <<>>
    /\ disk0 = <<>>
    /\ store0 = <<>>
    /\ rootWorkspaces = FALSE
    /\ filter = NoFilter
    /\ changes = <<>>
    /\ packages = <<>>
    /\ version_bumps = EmptyMap
    /\ todo = {}
    /\ removeAt = 0
    /\ writes = <<>>
    /\ scans = 0
    /\ result = "running"

\* A version run: a store (or none), three manifests, an optional filter.
Init ==
    /\ GraphIdle
    /\ FsIdle
    /\ pc = "start"
    /\ storeExists \in BOOLEAN
    /\ store \in (IF storeExists THEN Stores ELSE {<<>>})
    /\ rootWorkspaces \in BOOLEAN
    /\ filter \in Filters
    /\ \E version \in [Pkgs -> VersionStrings], decl \in Layouts :
          disk = Manifests(version, decl, 0)
    /\ disk0 = disk
    /\ store0 = store
    /\ changes = <<>>
    /\ packages = <<>>
    /\ version_bumps = EmptyMap
    /\ todo = {}
    /\ removeAt = 0
    /\ writes = [p \in Pkgs |-> 0]
    /\ scans = 0
    /\ result = "running"

Next ==
    \/ ReadChangelog
    \/ Discover
    \/ Calculate
    \/ ApplyOne
    \/ ApplyReturn
    \/ RemoveOne
    \/ Finish

Spec == Init /\ [][Next]_vars

\* The graph alone.
InitGraph == GraphNew /\ RunIdle

SpecGraph == InitGraph /\ [][GraphNext]_vars

\* ---- inputs of calculate_version_bumps alone ----

DefaultVersion == [p \in Pkgs |-> <<1, 2, 3>>]

\* Sets of at most MaxDeps declarations.
Declarations ==
    {d \in SUBSET (Pkgs \X Names) : Cardinality(d) <= MaxDeps}

\* Change entries naming one or two packages.
Records ==
    UNION {[S -> BumpTypes] : S \in {T \in SUBSET Names : Cardinality(T) \in {1, 2}}}

\* Change entries over the names "a", "b" and "x".
FewRecords ==
    UNION {[S -> BumpTypes] : S \in {T \in SUBSET {"a", "b", "x"} : Cardinality(T) \in {1, 2}}}

ChangeLists(recs) ==
    UNION {[1 .. n -> recs] : n \in 0 .. MaxFiles}

AsChanges(list) ==
    [i \in DOMAIN list |-> [packages |-> list[i], file_path |-> i]]

RunAtCalculate ==
    /\ FsIdle
    /\ pc = "calculate"
    /\ storeExists = TRUE
    /\ store = <<>>
    /\ store0 = <<>>
    /\ disk0 = disk
    /\ rootWorkspaces = FALSE
    /\ filter = NoFilter
    /\ version_bumps = EmptyMap
    /\ todo = {}
    /\ removeAt = 0
    /\ writes = <<>>
    /\ scans = 0
    /\ result = "running"

\* Many dependency layouts under one change entry.
InitDeps ==
    /\ \E decl \in Declarations, rot \in 0 .. 2 :
          disk = Manifests(DefaultVersion, decl, rot)
    /\ packages = disk
    /\ \E rec \in Records : changes = AsChanges(<<rec>>)

\* Many lists of change entries under two dependency layouts.
InitRecords ==
    /\ \E decl \in {{}, {<<"b", "a">>}} : disk = Manifests(DefaultVersion, decl, 0)
    /\ packages = disk
    /\ \E list \in ChangeLists(FewRecords) : changes = AsChanges(list)

InitBumps ==
    /\ GraphIdle
    /\ (InitDeps \/ InitRecords)
    /\ RunAtCalculate

SpecBumps == InitBumps /\ [][Calculate]_vars

\* A chain of n packages 1 .. n, package i depending on package i - 1, with one
\* change entry, Patch for package 1.
ChainManifests(n, rot) ==
    [i \in 1 .. n |->
        Manifest(i, <<1, 2, 3>>,
                 IF i > 1 /\ (i + rot) % 3 = 0 THEN {i - 1} ELSE {},
                 IF i > 1 /\ (i + rot) % 3 = 1 THEN {i - 1} ELSE {},
                 IF i > 1 /\ (i + rot) % 3 = 2 THEN {i - 1} ELSE {})]

InitChain ==
    /\ GraphIdle
    /\ \E n \in 1 .. MaxChain : disk = ChainManifests(n, 0)
    /\ packages = disk
    /\ changes = <<[packages |-> [k \in {1} |-> "Patch"], file_path |-> 1]>>
    /\ RunAtCalculate

SpecChain == InitChain /\ [][Calculate]_vars

\* A version run over a chain as long as the ceiling of the transitive pass:
\* packages "1" .. "100" in subdirectories, package i depending on package
\* i - 1, and one change record, patch for package "1".
LongChainManifests ==
    [name \in {ToString(i) : i \in 1 .. MaxIterations} |->
        LET i == CHOOSE k \in 1 .. MaxIterations : ToString(k) = name IN
        Manifest(name, <<1, 2, 3>>,
                 IF i > 1 THEN {ToString(i - 1)} ELSE {}, {}, {})]

InitLongRun ==
    /\ GraphIdle
    /\ FsIdle
    /\ pc = "start"
    /\ storeExists = TRUE
    /\ store = [f \in {1} |-> [md |-> TRUE, header |-> TRUE,
                               lines |-> <<Line(ToString(1), "patch")>>]]
    /\ rootWorkspaces = FALSE
    /\ filter = NoFilter
    /\ disk = LongChainManifests
    /\ disk0 = disk
    /\ store0 = store
    /\ changes = <<>>
    /\ packages = <<>>
    /\ version_bumps = EmptyMap
    /\ todo = {}
    /\ removeAt = 0
    /\ writes = [p \in DOMAIN disk |-> 0]
    /\ scans = 0
    /\ result = "running"

\* The version runs of Spec and the run over the long chain.
SpecRuns == (Init \/ InitLongRun) /\ [][Next]_vars

\* Change entries one package gets at most, one after the other.
MaxRecords == 4

\* One package without dependencies and a list of change entries for it.
InitOrder ==
    /\ GraphIdle
    /\ disk = [p \in {"a"} |-> Manifest("a", <<1, 2, 3>>, {}, {}, {})]
    /\ packages = disk
    /\ \E n \in 0 .. MaxRecords : \E sevs \in [1 .. n -> BumpTypes] :
          changes = AsChanges([i \in 1 .. n |-> [k \in {"a"} |-> sevs[i]]])
    /\ RunAtCalculate

SpecOrder == InitOrder /\ [][Calculate]_vars

(***************************************************************************)
(* The directory tree                                                      *)
(***************************************************************************)

\* A path is the sequence of its components. The directories of a tree, as
\* paths below the directory the program is given.
Dirs ==
    { <<>>, <<"packages">>, <<"packages", "a">>, <<"packages", "b">>,
      <<"packages", "c">> }

ManifestName == "package.json"

IsPrefix(p, q) == Len(p) <= Len(q) /\ SubSeq(q, 1, Len(p)) = p

\* Path::parent and Path::join
Parent(path) == SubSeq(path, 1, Len(path) - 1)

Join(path, name) == path \o <<name>>

\* A tree is [root, manifests]: the directory given, and for the directories
\* (of Dirs) that hold a package.json what the file says: whether it parses,
\* its name and its "workspaces" patterns, each a sequence of components.
DirPaths(t) == {t.root \o d : d \in Dirs}

ManifestPaths(t) == {Join(t.root \o d, ManifestName) : d \in DOMAIN t.manifests}

Entries(t) == DirPaths(t) \cup ManifestPaths(t)

\* The content of the package.json at path `file`.
ManifestAt(t, file) ==
    t.manifests[SubSeq(file, Len(t.root) + 1, Len(file) - 1)]

(***************************************************************************)
(* src/project.rs: Project::new                                            *)
(***************************************************************************)

\* ignore::Walk::new(start): the entry at start and everything below it. A
\* walk that starts at a file yields that file alone.
Walk(t, start) == {e \in Entries(t) : IsPrefix(start, e)}

\* globset: Glob::is_match on a whole path. "*" matches any run of characters,
\* separators included (literal_separator is off by default), here one or
\* more components; a leading "**" matches any directories, none included.
RECURSIVE GlobMatch(_, _)
GlobMatch(pattern, path) ==
    IF pattern = <<>> THEN path = <<>>
    ELSE IF Head(pattern) = "**"
         THEN \E k \in 0 .. Len(path) :
                 GlobMatch(Tail(pattern), SubSeq(path, k + 1, Len(path)))
    ELSE IF Head(pattern) = "*"
         THEN \E k \in 1 .. Len(path) :
                 GlobMatch(Tail(pattern), SubSeq(path, k + 1, Len(path)))
    ELSE /\ path # <<>>
         /\ Head(path) = Head(pattern)
         /\ GlobMatch(Tail(pattern), Tail(path))

\* GlobSet::is_match
GlobSetMatch(patterns, path) ==
    \E i \in DOMAIN patterns : GlobMatch(patterns[i], path)

\* Workspace::new(directory, package_json): the path it is given is stored as
\* the directory.
WorkspaceNew(directory, package_json) ==
    [directory |-> directory, name |-> package_json.name]

\* The directories the second walk of Project::new yields for the workspace
\* at node_index (project.rs 49-61): the entries at or below the workspace's
\* `directory` that match the glob set, are directories and hold a
\* package.json.
MatchedDirectories(t, ns, node_index, patterns) ==
    {e \in Walk(t, At(ns, node_index).data.directory) :
        /\ GlobSetMatch(patterns, e)
        /\ e \in DirPaths(t)
        /\ Join(e, ManifestName) \in ManifestPaths(t)}

\* project.rs 64-74: the first workspace whose `directory` equals the path.
FindChild(ns, wss, directory) ==
    LET hits == {i \in DOMAIN wss : At(ns, wss[i].node_index).data.directory = directory}
    IN  IF hits = {} THEN None
        ELSE wss[CHOOSE i \in hits : \A j \in hits : i <= j].node_index

\* project.rs 77-78: the two add_edge calls for a parent and a child.
LinkPair(g, node_index, child_workspace_index) ==
    LET first == add_edge(g.nodes, g.edges, node_index, child_workspace_index, "Incoming")
        second == add_edge(first.nodes, first.edges, child_workspace_index, node_index,
                           "Outgoing")
    IN  [nodes |-> second.nodes, edges |-> second.edges,
         log |-> g.log \o <<[source |-> node_index, target |-> child_workspace_index,
                             direction |-> "Incoming"],
                            [source |-> child_workspace_index, target |-> node_index,
                             direction |-> "Outgoing"]>>]

\* project.rs 63-80: the loop over the directories the walk yields, in the
\* order it yields them.
RECURSIVE LinkAll(_, _, _, _, _)
LinkAll(g, wss, node_index, directories, i) ==
    IF i > Len(directories) THEN g
    ELSE LET child == FindChild(g.nodes, wss, directories[i]) IN
         IF child # None
         THEN LinkAll(LinkPair(g, node_index, child), wss, node_index, directories, i + 1)
         ELSE LinkAll(g, wss, node_index, directories, i + 1)

\* ---- Project::new as actions ----

\* project.rs 21-35, one turn of the first loop: the walk yields a file named
\* package.json. A content that does not parse panics in expect(); otherwise
\* the workspace becomes a node. The walk's order is not fixed.
ProjectVisit ==
    /\ ppc = "walk"
    /\ \E package_json_path \in (Walk(tree, tree.root) \cap ManifestPaths(tree)) \ walked :
          LET package_json == ManifestAt(tree, package_json_path) IN
          IF ~package_json.parses
          THEN /\ ppc' = "panicked"
               /\ UNCHANGED <<nodes, nodeLog, lastOp, workspaces, walked>>
          ELSE LET workspace == WorkspaceNew(package_json_path, package_json)
                   node_index == add_node_index(nodes)
               IN  /\ nodes' = add_node_nodes(nodes, workspace)
                   /\ nodeLog' = Append(nodeLog, [returned |-> node_index,
                                                  data |-> workspace])
                   /\ lastOp' = [op |-> "add_node", returned |-> node_index]
                   /\ workspaces' = Append(workspaces,
                                           [node_index |-> node_index,
                                            patterns |-> package_json.workspaces])
                   /\ walked' = walked \cup {package_json_path}
                   /\ ppc' = ppc
    /\ UNCHANGED <<edges, edgeLog, tree, linkAt>>
    /\ UNCHANGED <<runVars, loadVars>>

\* The first walk is exhausted: the second loop starts (project.rs 37).
ProjectWalked ==
    /\ ppc = "walk"
    /\ (Walk(tree, tree.root) \cap ManifestPaths(tree)) \ walked = {}
    /\ ppc' = "link"
    /\ linkAt' = 1
    /\ UNCHANGED <<tree, workspaces, walked>>
    /\ UNCHANGED <<graphVars, runVars, loadVars>>

\* project.rs 37-81, one turn of the second loop: the walk below the
\* workspace's directory and an edge pair for each directory it yields that is
\* the directory of a workspace.
ProjectLink ==
    /\ ppc = "link"
    /\ linkAt <= Len(workspaces)
    /\ LET node_index == workspaces[linkAt].node_index
           matched == MatchedDirectories(tree, nodes, node_index,
                                         workspaces[linkAt].patterns)
       IN  \E order \in Orders(matched) :
              LET g == LinkAll([nodes |-> nodes, edges |-> edges, log |-> edgeLog],
                               workspaces, node_index, order, 1)
              IN  /\ nodes' = g.nodes
                  /\ edges' = g.edges
                  /\ edgeLog' = g.log
    /\ linkAt' = linkAt + 1
    /\ UNCHANGED <<lastOp, nodeLog, tree, ppc, workspaces, walked>>
    /\ UNCHANGED <<runVars, loadVars>>

\* project.rs 83-86: the Project is returned.
ProjectReturn ==
    /\ ppc = "link"
    /\ linkAt > Len(workspaces)
    /\ ppc' = "built"
    /\ UNCHANGED <<tree, workspaces, walked, linkAt>>
    /\ UNCHANGED <<graphVars, runVars, loadVars>>

ProjectNext == ProjectVisit \/ ProjectWalked \/ ProjectLink \/ ProjectReturn

\* Project::dependents and Project::dependencies, collected.
dependents(workspace) == EdgesOf(nodes, edges, workspace, "Incoming")

dependencies(workspace) == EdgesOf(nodes, edges, workspace, "Outgoing")

\* ---- inputs of Project::new ----

\* The name in the package.json of directory d.
NameOf(d) == IF d = <<>> THEN "root" ELSE d[Len(d)]

ManifestFile(d, parses, patterns) ==
    [name |-> NameOf(d), parses |-> parses, workspaces |-> patterns]

\* The directories that may hold a package.json.
PackageDirs == Dirs \ {<<"packages">>}

\* Trees for Project::new: any set of manifests, at most one of them
\* unparseable, the root manifest with no pattern, with packages/* or with
\* **/packages/*.
RootPatterns ==
    { <<>>, << <<"packages", "*">> >>, << <<"**", "packages", "*">> >> }

ProjectTrees ==
    { [root |-> root,
       manifests |-> [d \in S |-> ManifestFile(d, d # bad,
                                               IF d = <<>> THEN pats ELSE <<>>)]] :
        root \in { <<"/", "repo">>, <<".">> },
        S \in SUBSET PackageDirs,
        bad \in PackageDirs \cup {<<"none">>},
        pats \in RootPatterns }

LoadIdle ==
    /\ lpc = "idle"
    /\ package_json_files = <<>>
    /\ callStack = <<>>
    /\ loaded = <<>>

InitProject ==
    /\ GraphNew
    /\ tree \in ProjectTrees
    /\ ppc = "walk"
    /\ workspaces = <<>>
    /\ walked = {}
    /\ linkAt = 0
    /\ LoadIdle
    /\ pc = "idle"
    /\ storeExists = FALSE
    /\ store = <<>>
    /\ disk = <<>>
    /\ disk0 = <<>>
    /\ store0 = <<>>
    /\ rootWorkspaces = FALSE
    /\ filter = NoFilter
    /\ changes = <<>>
    /\ packages = <<>>
    /\ version_bumps = EmptyMap
    /\ todo = {}
    /\ removeAt = 0
    /\ writes = <<>>
    /\ scans = 0
    /\ result = "running"

SpecProject == InitProject /\ [][ProjectNext]_vars

(***************************************************************************)
(* src/workspace.rs: Project::load                                         *)
(***************************************************************************)

\* Nested load_workspace calls the model follows at most.
MaxDepth == 5

\* The directory a path names once the file system has resolved its "." and
\* ".." components.
RECURSIVE ResolveFrom(_, _)
ResolveFrom(acc, rest) ==
    IF rest = <<>> THEN acc
    ELSE LET s == Head(rest) IN
         IF s = "." THEN ResolveFrom(acc, Tail(rest))
         ELSE IF s = ".."
              THEN ResolveFrom(IF Len(acc) > 1 THEN Parent(acc) ELSE acc, Tail(rest))
              ELSE ResolveFrom(Append(acc, s), Tail(rest))

Resolve(path) == ResolveFrom(<<>>, path)

\* Path::is_dir and Path::exists. The directory above the root exists too.
IsDir(t, path) == Resolve(path) \in DirPaths(t) \cup {Parent(t.root)}

Exists(t, path) == Resolve(path) \in Entries(t) \cup {Parent(t.root)}

\* The names read_dir lists in a directory.
ChildNames(t, path) ==
    {e[Len(e)] : e \in {f \in Entries(t) : Len(f) > 0 /\ Parent(f) = Resolve(path)}}

\* glob::glob on base_dir.join(pattern): the paths it yields, built component
\* by component from the base. "." and ".." are appended as they stand, "*"
\* lists the directory, any other component must exist.
RECURSIVE GlobPaths(_, _, _)
GlobPaths(t, path, pattern) ==
    IF pattern = <<>> THEN {path}
    ELSE LET s == Head(pattern)
             rest == Tail(pattern)
         IN  IF s \in {".", ".."}
             THEN IF IsDir(t, path) THEN GlobPaths(t, Join(path, s), rest) ELSE {}
             ELSE IF s = "*"
             THEN IF IsDir(t, path)
                  THEN UNION {GlobPaths(t, Join(path, c), rest) : c \in ChildNames(t, path)}
                  ELSE {}
             ELSE IF Exists(t, Join(path, s))
                  THEN GlobPaths(t, Join(path, s), rest)
                  ELSE {}

\* workspace_path.join("package.json").exists() (workspace.rs 169-170)
HasManifest(t, workspace_path) ==
    Join(Resolve(workspace_path), ManifestName) \in ManifestPaths(t)

\* load_package_json on workspace_dir.join("package.json")
load_package_json(t, workspace_dir) ==
    ManifestAt(t, Join(Resolve(workspace_dir), ManifestName))

\* find_workspaces_from_patterns, the paths its loops visit (workspace.rs
\* 156-166): what the globs of all patterns yield, each path once (the
\* `visited` set of this one call).
PatternEntries(t, base_dir, patterns) ==
    UNION {GlobPaths(t, base_dir, patterns[i]) : i \in DOMAIN patterns}

\* load_workspace up to its call of find_workspaces_from_patterns (workspace.rs
\* 105-115): the error of an unparseable package.json, or the frame of the
\* call with the paths it has to visit.
load_workspace(t, workspace_dir) ==
    LET package_json == load_package_json(t, workspace_dir) IN
    IF ~package_json.parses THEN [ok |-> FALSE]
    ELSE [ok |-> TRUE,
          frame |-> [workspace_dir |-> workspace_dir,
                     entries |-> PatternEntries(t, workspace_dir, package_json.workspaces),
                     children |-> <<>>]]

\* ---- Project::load as actions ----

\* discover_workspaces, lines 65-69: find_package_json_files, in the order
\* WalkDir lists them.
LoadDiscover ==
    /\ lpc = "start"
    /\ \E order \in Orders(ManifestPaths(tree)) : package_json_files' = order
    /\ lpc' = "discover"
    /\ UNCHANGED <<callStack, loaded>>
    /\ UNCHANGED <<graphVars, runVars, tree, projVars>>

\* discover_workspaces, lines 72-80: the next package.json and the call of
\* load_workspace on its directory (no two files share a parent, so `visited`
\* never skips one). An Err is returned at once.
LoadCall ==
    /\ lpc = "discover"
    /\ callStack = <<>>
    /\ package_json_files # <<>>
    /\ LET workspace_dir == Parent(Head(package_json_files))
           r == load_workspace(tree, workspace_dir)
       IN  IF r.ok
           THEN callStack' = <<r.frame>> /\ lpc' = lpc
           ELSE callStack' = <<>> /\ lpc' = "failed"
    /\ package_json_files' = Tail(package_json_files)
    /\ UNCHANGED loaded
    /\ UNCHANGED <<graphVars, runVars, tree, projVars>>

\* find_workspaces_from_patterns, one turn of its inner loop (workspace.rs
\* 160-174) in the innermost call: a path without a package.json is passed
\* over, one with a package.json is loaded by a nested load_workspace call,
\* whose Err every caller hands up.
LoadEntry ==
    /\ lpc = "discover"
    /\ callStack # <<>>
    /\ LET top == callStack[Len(callStack)] IN
       \E workspace_path \in top.entries :
          LET left == [top EXCEPT !.entries = @ \ {workspace_path}]
              below == SubSeq(callStack, 1, Len(callStack) - 1)
          IN  IF HasManifest(tree, workspace_path)
              THEN /\ Len(callStack) < MaxDepth
                   /\ LET r == load_workspace(tree, workspace_path) IN
                      IF r.ok
                      THEN callStack' = below \o <<left, r.frame>> /\ lpc' = lpc
                      ELSE callStack' = <<>> /\ lpc' = "failed"
              ELSE callStack' = below \o <<left>> /\ lpc' = lpc
    /\ UNCHANGED <<package_json_files, loaded>>
    /\ UNCHANGED <<graphVars, runVars, tree, projVars>>

\* load_workspace returns Ok(Workspace) (workspace.rs 127-131): the caller
\* pushes it, find_workspaces_from_patterns to the children (line 172),
\* discover_workspaces to its workspaces (line 81).
LoadReturn ==
    /\ lpc = "discover"
    /\ callStack # <<>>
    /\ LET top == callStack[Len(callStack)]
           workspace == [path |-> top.workspace_dir, children |-> top.children]
           depth == Len(callStack)
       IN  /\ top.entries = {}
           /\ IF depth = 1
              THEN /\ callStack' = <<>>
                   /\ loaded' = Append(loaded, workspace)
              ELSE /\ callStack' =
                        [SubSeq(callStack, 1, depth - 1) EXCEPT
                            ![depth - 1].children = Append(@, workspace)]
                   /\ loaded' = loaded
    /\ UNCHANGED <<lpc, package_json_files>>
    /\ UNCHANGED <<graphVars, runVars, tree, projVars>>

\* discover_workspaces returns Ok and Project::load with it (workspace.rs 84,
\* 53).
LoadFinish ==
    /\ lpc = "discover"
    /\ callStack = <<>>
    /\ package_json_files = <<>>
    /\ lpc' = "done"
    /\ UNCHANGED <<package_json_files, callStack, loaded>>
    /\ UNCHANGED <<graphVars, runVars, tree, projVars>>

LoadNext == LoadDiscover \/ LoadCall \/ LoadEntry \/ LoadReturn \/ LoadFinish

\* ---- inputs of Project::load ----

\* Trees for Project::load: a root package.json, packages/a and packages/b
\* with or without one; the root's patterns name its packages or itself, a's
\* patterns name the root, a itself or its sibling.
LoadRootPatterns ==
    { <<>>,
      << <<"packages", "*">> >>,
      << <<".">> >>,
      << <<"packages", "*">>, <<"packages", "a">> >> }

LoadPackagePatterns ==
    { <<>>, << <<"..", "..">> >>, << <<"..", "a">> >>, << <<"..", "b">> >> }

LoadTrees ==
    { [root |-> <<"/", "repo">>,
       manifests |->
          [d \in {<<>>} \cup S |->
              ManifestFile(d, d # bad,
                           IF d = <<>> THEN rootPats
                           ELSE IF d = <<"packages", "a">> THEN aPats ELSE <<>>)]] :
        S \in SUBSET {<<"packages", "a">>, <<"packages", "b">>},
        bad \in {<<"packages", "a">>, <<"packages", "b">>, <<"none">>},
        rootPats \in LoadRootPatterns,
        aPats \in LoadPackagePatterns }

InitLoad ==
    /\ GraphNew
    /\ tree \in LoadTrees
    /\ ppc = "idle"
    /\ workspaces = <<>>
    /\ walked = {}
    /\ linkAt = 0
    /\ lpc = "start"
    /\ package_json_files = <<>>
    /\ callStack = <<>>
    /\ loaded = <<>>
    /\ pc = "idle"
    /\ storeExists = FALSE
    /\ store = <<>>
    /\ disk = <<>>
    /\ disk0 = <<>>
    /\ store0 = <<>>
    /\ rootWorkspaces = FALSE
    /\ filter = NoFilter
    /\ changes = <<>>
    /\ packages = <<>>
    /\ version_bumps = EmptyMap
    /\ todo = {}
    /\ removeAt = 0
    /\ writes = <<>>
    /\ scans = 0
    /\ result = "running"

SpecLoad == InitLoad /\ [][LoadNext]_vars

(***************************************************************************)
(* Properties                                                              *)
(***************************************************************************)

\* The targets the add_edge calls logged for node n and direction d, the
\* call made last first.
RECURSIVE LoggedTargets(_, _, _, _)
LoggedTargets(log, i, n, d) ==
    IF i = 0 THEN <<>>
    ELSE IF log[i].source = n /\ log[i].direction = d
         THEN <<log[i].target>> \o LoggedTargets(log, i - 1, n, d)
         ELSE LoggedTargets(log, i - 1, n, d)

\* C1: for every existing node n and each direction d, iterating edges(n, d)
\* yields exactly the targets of the add_edge(n, t, d) calls made so far, with
\* multiplicity, most recently added first, and so none that was added for n
\* with the other direction only.
C1_EdgesYieldAddedTargets ==
    \A n \in 0 .. (Len(nodes) - 1), d \in Directions :
        EdgesOf(nodes, edges, n, d) = LoggedTargets(edgeLog, Len(edgeLog), n, d)

\* C1 witness: a node that got two Outgoing edges to different targets and an
\* Incoming edge, iterated in both directions.
C1_Witness ==
    \E n \in 0 .. (Len(nodes) - 1) :
        LET out == EdgesOf(nodes, edges, n, "Outgoing")
            inc == EdgesOf(nodes, edges, n, "Incoming")
        IN  /\ Len(out) = 2
            /\ out[1] # out[2]
            /\ Len(inc) = 1
            /\ edgeLog[Len(edgeLog)].direction = "Outgoing"
            /\ edgeLog[Len(edgeLog)].target = out[1]

\* The rank of a severity: Major > Minor > Patch.
SevRank(sev) ==
    CASE sev = "Major" -> 3 [] sev = "Minor" -> 2 [] sev = "Patch" -> 1

MaxSev(S) == CHOOSE sev \in S : \A t \in S : SevRank(t) <= SevRank(sev)

\* The severities the change records give package p directly.
DirectSevs(chs, p) ==
    {chs[i].packages[p] : i \in {j \in DOMAIN chs : p \in DOMAIN chs[j].packages}}

\* The names a manifest declares a dependency on, in any of the three fields.
Declared(manifest) ==
    manifest.dependencies \cup manifest.dev_dependencies \cup manifest.peer_dependencies

\* The discovered packages reachable from the packages of `from` through
\* dependency declarations.
RECURSIVE Reach(_, _)
Reach(pkgs, from) ==
    LET more == from \cup
                {n \in DOMAIN pkgs : \E p \in from : n \in Declared(pkgs[p])}
    IN  IF more = from THEN from ELSE Reach(pkgs, more)

\* Whether calculate_version_bumps has returned, and returned a map.
Returned == pc # "calculate"

ReturnedMap == Returned /\ result # "max_iterations"

\* C2: when calculate_version_bumps returns a map, every discovered package P
\* holds exactly the maximum of the direct severities of P and of the discovered
\* packages reachable from P through its declarations, and holds no entry when
\* none of them has a direct severity.
C2_MapIsMaxOverReachable ==
    ReturnedMap =>
        \A P \in DOMAIN packages :
            LET sevs == UNION {DirectSevs(changes, q) : q \in Reach(packages, {P})}
            IN  IF sevs = {} THEN P \notin DOMAIN version_bumps
                ELSE P \in DOMAIN version_bumps /\ version_bumps[P] = MaxSev(sevs)

\* C2 witness: A without dependencies, B depending on A, Patch recorded for A
\* only: the map returned is {A: Patch, B: Patch}.
C2_Witness ==
    /\ ReturnedMap
    /\ Declared(packages["a"]) = {}
    /\ Declared(packages["b"]) = {"a"}
    /\ Declared(packages["c"]) = {}
    /\ Len(changes) = 1
    /\ changes[1].packages = [k \in {"a"} |-> "Patch"]
    /\ version_bumps = [k \in {"a", "b"} |-> "Patch"]

\* C3: a dependency cycle (a depends on b and b depends on a, at least one of
\* them bumped) makes calculate_version_bumps report the cycle error instead
\* of returning a map.
C3_CycleReportsError ==
    ( /\ Returned
      /\ "b" \in Declared(packages["a"])
      /\ "a" \in Declared(packages["b"])
      /\ DirectSevs(changes, "a") \cup DirectSevs(changes, "b") # {} )
    => result = "max_iterations"

\* C4: for an acyclic dependency graph (here: every package depends only on
\* packages of a smaller number), whatever the length of its longest chain,
\* calculate_version_bumps returns a map, not the iteration-ceiling error.
C4_AcyclicNeverHitsCeiling ==
    ( /\ Returned
      /\ \A p \in DOMAIN packages : \A d \in Declared(packages[p]) : d < p )
    => result # "max_iterations"

\* The changes in another order.
Reordered(chs, o) == [i \in DOMAIN chs |-> chs[o[i]]]

\* The map of the maximum direct severity of every discovered package that
\* has one.
MaxDirect(chs, pkgs) ==
    [p \in {q \in DOMAIN pkgs : DirectSevs(chs, q) # {}} |-> MaxSev(DirectSevs(chs, p))]

\* C5: the direct pass keeps, for each (discovered) package, the maximum
\* severity over all pairs of all change records, whatever the order the
\* records are processed in; where no package declares a dependency, that is
\* the map calculate_version_bumps returned.
C5_DirectPassKeepsMaximum ==
    Returned =>
        /\ \A o \in Orders(DOMAIN changes) :
              DirectPass(EmptyMap, packages, Reordered(changes, o), 1)
                  = MaxDirect(changes, packages)
        /\ (\A p \in DOMAIN packages : Declared(packages[p]) = {})
              => version_bumps = MaxDirect(changes, packages)

\* C5 witness: a Minor record followed by a Patch record for the same package,
\* and the package holds Minor.
C5_Witness ==
    /\ Returned
    /\ Len(changes) = 2
    /\ "a" \in DOMAIN changes[1].packages /\ changes[1].packages["a"] = "Minor"
    /\ "a" \in DOMAIN changes[2].packages /\ changes[2].packages["a"] = "Patch"
    /\ \A p \in DOMAIN packages : Declared(packages[p]) = {}
    /\ version_bumps["a"] = "Minor"

\* Whether every md file of the store parses (no invalid severity token).
StoreParses ==
    \A f \in DOMAIN store :
        store[f].md => parse_changelog_file(f, store[f]).ok

\* C6: every key of the map is a package of the discovered set (after the
\* filter); a change record naming a package outside the set causes no error
\* (a run fails only for a missing store, an invalid severity token or an
\* unparsable version of a bumped package); no manifest of a package outside
\* the set is written.
C6_OnlyDiscoveredPackages ==
    /\ DOMAIN version_bumps \subseteq DOMAIN packages
    /\ \A p \in DOMAIN disk :
          p \notin DOMAIN packages => writes[p] = 0 /\ disk[p] = disk0[p]
    /\ result = "no_changelog_dir" => ~storeExists
    /\ result = "invalid_bump_type" => ~StoreParses
    /\ result = "invalid_version" =>
          \E p \in DOMAIN version_bumps : ~VersionParse(disk0[p].version).ok
    /\ result # "max_iterations"

\* C6 witness: a successful filtered run whose records also name a package that
\* was filtered out and a name no manifest carries.
C6_Witness ==
    /\ pc = "done"
    /\ result = "ok"
    /\ filter.some
    /\ version_bumps # EmptyMap
    /\ \E i \in DOMAIN changes : "a" \in DOMAIN changes[i].packages
    /\ "a" \notin DOMAIN packages
    /\ \E p \in DOMAIN packages : writes[p] = 1

\* C7: whenever the version command returns success, every change-record file
\* that was parsed into a change entry has been deleted from the store.
C7_SuccessDeletesEveryParsedFile ==
    (pc = "done" /\ result = "ok") =>
        \A i \in DOMAIN changes : changes[i].file_path \notin DOMAIN store

\* The version a manifest must show after a bump of its version string v.
Bumped(v, sev) ==
    CASE sev = "Major" -> <<v[1] + 1, 0, 0>>
      [] sev = "Minor" -> <<v[1], v[2] + 1, 0>>
      [] sev = "Patch" -> <<v[1], v[2], v[3] + 1>>

\* Whether apply_version_bumps has returned Ok.
Applied == pc = "remove" \/ (pc = "done" /\ result = "ok" /\ version_bumps # EmptyMap)

\* C8: apply_version_bumps writes each package that has a map entry exactly
\* once, with the bumped version (Major: major+1.0.0, Minor: major.minor+1.0,
\* Patch: major.minor.patch+1), and leaves every package without a map entry
\* unchanged.
C8_ApplyBumpsEachEntryOnce ==
    /\ \A p \in DOMAIN disk :
          /\ writes[p] <= 1
          /\ p \notin DOMAIN version_bumps => writes[p] = 0 /\ disk[p] = disk0[p]
    /\ Applied =>
          \A p \in DOMAIN version_bumps :
              /\ writes[p] = 1
              /\ disk[p].version = Bumped(disk0[p].version, version_bumps[p])
              /\ packages[p].version = disk[p].version
              /\ [disk[p] EXCEPT !.version = disk0[p].version] = disk0[p]

\* C8 witness: 1.2.3 under Major is 2.0.0, 1.2.3 under Minor is 1.3.0, and the
\* package without an entry is still at 1.2.3.
C8_Witness ==
    /\ Applied
    /\ DOMAIN version_bumps = {"a", "b"}
    /\ disk0["a"].version = <<1, 2, 3>> /\ version_bumps["a"] = "Major"
    /\ disk["a"].version = <<2, 0, 0>>
    /\ disk0["b"].version = <<1, 2, 3>> /\ version_bumps["b"] = "Minor"
    /\ disk["b"].version = <<1, 3, 0>>
    /\ disk0["c"].version = <<1, 2, 3>> /\ disk["c"].version = <<1, 2, 3>>

\* C9: with k add_node calls made, call i (from 0) returned index i,
\* get_node(i) returns the payload of that call for every i < k, and
\* get_node(i) is absent for every i >= k.
C9_NodeIndicesAreStable ==
    LET k == Len(nodeLog) IN
    \A i \in 0 .. (MaxNodes + 1) :
        IF i < k
        THEN /\ nodeLog[i + 1].returned = i
             /\ get_node(nodes, i).some
             /\ get_node(nodes, i).node.data = nodeLog[i + 1].data
        ELSE ~get_node(nodes, i).some

\* C9 witness: two nodes with different payloads, and edges added after them.
C9_Witness ==
    /\ Len(nodeLog) >= 2
    /\ nodeLog[1].data # nodeLog[2].data
    /\ Len(edges) >= 2
    /\ lastOp.op = "add_edge"

\* C10: add_edge with a source that is no existing node index fails, and the
\* failed call appends no edge record and changes no node's first-edge handle.
C10_FailedAddEdgeChangesNothing ==
    [][ (lastOp'.op = "add_edge" /\ ~InRange(nodes, lastOp'.source))
            => (lastOp'.fault /\ edges' = edges /\ nodes' = nodes) ]_vars

\* C10 witness: a failed add_edge on a graph that has nodes and edges.
C10_Witness ==
    /\ lastOp.op = "add_edge"
    /\ lastOp.fault
    /\ Len(nodes) >= 1
    /\ Len(edges) >= 1

\* The severity tokens BumpType::from_str accepts (in any letter case).
ValidTokens == {"major", "minor", "patch", "MAJOR", "Minor"}

\* Whether some md file of the store has a front-matter line whose severity
\* token is none of major, minor, patch.
HasInvalidToken(files) ==
    \E f \in DOMAIN files :
        /\ files[f].md
        /\ files[f].header
        /\ \E i \in DOMAIN files[f].lines : files[f].lines[i].token \notin ValidTokens

\* C13: a version run whose store is missing, or in which a front-matter line
\* carries a severity token other than major, minor, patch, ends with the
\* error, and in such a run no manifest is written and no change-record file
\* is deleted.
C13_BadStoreFailsWithoutEffect ==
    /\ (pc = "done" /\ ~storeExists) => result = "no_changelog_dir"
    /\ (pc = "done" /\ storeExists /\ HasInvalidToken(store0))
          => result = "invalid_bump_type"
    /\ (~storeExists \/ HasInvalidToken(store0)) =>
          /\ disk = disk0
          /\ \A p \in DOMAIN writes : writes[p] = 0
          /\ store = store0
          /\ result \in {"running", "no_changelog_dir", "invalid_bump_type"}

\* C13 witness: a finished run over a store of two md files, one with a valid
\* front matter and one with the token "feature".
C13_Witness ==
    /\ pc = "done"
    /\ result = "invalid_bump_type"
    /\ Cardinality(DOMAIN store0) = 2
    /\ \E f \in DOMAIN store0 : store0[f].lines = <<Line("a", "feature")>>
    /\ \E f \in DOMAIN store0 : store0[f].lines = <<Line("b", "Minor")>> /\ store0[f].header
    /\ store = store0
    /\ disk = disk0

\* The severity a valid token stands for.
TokenSev(token) ==
    CASE token \in {"major", "MAJOR"} -> "Major"
      [] token \in {"minor", "Minor"} -> "Minor"
      [] token = "patch" -> "Patch"

\* The (package, severity) pairs a front matter gives: for each name the
\* severity of the last line that names it.
PairsOf(lines) ==
    [n \in {lines[i].name : i \in DOMAIN lines} |->
        TokenSev(lines[CHOOSE i \in DOMAIN lines :
                          /\ lines[i].name = n
                          /\ \A j \in DOMAIN lines : lines[j].name = n => j <= i].token)]

\* The md files with a front-matter header that has at least one line.
RecordFiles(files) ==
    {f \in DOMAIN files : files[f].md /\ files[f].header /\ files[f].lines # <<>>}

\* C14: a change-record file without a (parseable) front-matter header is
\* passed over: it yields no change entry, the read does not fail because of
\* it (it fails only for an invalid severity token under a header), and every
\* other record of the store is read, each exactly once, with its pairs.
C14_HeaderlessFileIsSkipped ==
    /\ \A i \in DOMAIN changes : store0[changes[i].file_path].header
    /\ result = "invalid_bump_type" => HasInvalidToken(store0)
    /\ (pc # "start" /\ storeExists /\ ~HasInvalidToken(store0)) =>
          /\ {changes[i].file_path : i \in DOMAIN changes} = RecordFiles(store0)
          /\ Len(changes) = Cardinality(RecordFiles(store0))
          /\ \A i \in DOMAIN changes :
                changes[i].packages = PairsOf(store0[changes[i].file_path].lines)

\* C14 witness: a successful run over a header-less md file and a record for
\* package a: the record was applied and deleted, the header-less file is
\* still in the store.
C14_Witness ==
    /\ pc = "done"
    /\ result = "ok"
    /\ Cardinality(DOMAIN store0) = 2
    /\ \E f \in DOMAIN store0 : store0[f].md /\ ~store0[f].header /\ f \in DOMAIN store
    /\ Len(changes) = 1
    /\ "a" \in DOMAIN version_bumps
    /\ writes["a"] = 1

\* C15: on a map calculate_version_bumps has returned, another scan of the
\* transitive pass changes nothing: every discovered package D holds, for every
\* dependency X of D that holds a severity, a severity equal to or greater
\* than X's.
C15_ReturnedMapIsClosed ==
    ReturnedMap =>
        /\ Scan(version_bumps, packages) = version_bumps
        /\ \A D \in DOMAIN packages :
              \A X \in Declared(packages[D]) \cap DOMAIN version_bumps :
                  /\ D \in DOMAIN version_bumps
                  /\ SevRank(version_bumps[D]) >= SevRank(version_bumps[X])

\* C15 witness: c depends on b, b depends on a, a Major record for a: the map
\* returned gives all three Major.
C15_Witness ==
    /\ ReturnedMap
    /\ "b" \in Declared(packages["c"])
    /\ "a" \in Declared(packages["b"])
    /\ Declared(packages["a"]) = {}
    /\ DirectSevs(changes, "b") = {} /\ DirectSevs(changes, "c") = {}
    /\ version_bumps = [k \in {"a", "b", "c"} |-> "Major"]

\* The keep-the-greater update of the first pass on a package that holds
\* `held`: what it holds after the pair (package, new).
Keep(pkgs, package_name, held, new) ==
    DirectUpdate(Insert(EmptyMap, package_name, held), pkgs, package_name, new)[package_name]

\* C16: is_greater_than is a strict total order on {Major, Minor, Patch} with
\* Major > Minor > Patch (irreflexive, transitive, exactly one of a > b, b > a
\* for a # b), and the keep-the-greater update built on it is idempotent and
\* commutative.
C16_SeverityOrder ==
    /\ is_greater_than("Major", "Minor")
    /\ is_greater_than("Minor", "Patch")
    /\ \A a, b, c \in BumpTypes :
          /\ ~is_greater_than(a, a)
          /\ (is_greater_than(a, b) /\ is_greater_than(b, c)) => is_greater_than(a, c)
          /\ a # b => (is_greater_than(a, b) <=> ~is_greater_than(b, a))
    /\ \A p \in DOMAIN packages : \A a, b \in BumpTypes :
          /\ Keep(packages, p, a, a) = a
          /\ Keep(packages, p, a, b) = Keep(packages, p, b, a)
          /\ Keep(packages, p, a, b) \in {a, b}

\* C16 witness: a Patch record, then a Major record, then a Minor record for the
\* same package, and the package holds Major.
C16_Witness ==
    /\ Returned
    /\ Len(changes) = 3
    /\ changes[3].packages = [k \in {"a"} |-> "Minor"]
    /\ "a" \in DOMAIN changes[1].packages /\ changes[1].packages["a"] = "Patch"
    /\ "a" \in DOMAIN changes[2].packages /\ changes[2].packages["a"] = "Major"
    /\ "a" \in DOMAIN version_bumps /\ version_bumps["a"] = "Major"

\* C17: the transitive pass makes at most 100 scans; a map that
\* calculate_version_bumps returns is closed under propagation (its last scan
\* changed nothing); and whenever the ceiling of 100 scans is reached the
\* function returns the error and no map.
C17_NoSilentTruncation ==
    /\ scans <= 100
    /\ ReturnedMap =>
          \A D \in DOMAIN packages :
              \A X \in Declared(packages[D]) \cap DOMAIN version_bumps :
                  /\ D \in DOMAIN version_bumps
                  /\ SevRank(version_bumps[D]) >= SevRank(version_bumps[X])
    /\ (Returned /\ scans = 100) =>
          /\ result = "max_iterations"
          /\ version_bumps = EmptyMap
          /\ pc = "done"

\* C17 witness: a chain longer than 100 packages, where 100 scans were made
\* and the error was returned.
C17_Witness ==
    /\ Returned
    /\ Cardinality(DOMAIN packages) > 100
    /\ scans = 100
    /\ result = "max_iterations"
    /\ version_bumps = EmptyMap

\* The edge records that were added for node n.
EdgesAddedFor(n) == {i \in 0 .. (Len(edgeLog) - 1) : At(edgeLog, i).source = n}

\* The records an iteration walks from record `cur` on, following next_edge.
RECURSIVE ChainFrom(_, _)
ChainFrom(es, cur) ==
    IF cur = None THEN <<>>
    ELSE <<cur>> \o ChainFrom(es, At(es, cur).next_edge)

\* C19: every edge record's next link is absent or names a strictly earlier
\* record added for the same source node; so iterating edges(n, d) walks at
\* most the records added for n, yields at most that many targets, and after
\* it has returned none every later next() returns none again.
C19_IterationIsFiniteAndFused ==
    /\ \A i \in 0 .. (Len(edges) - 1) :
          LET next == At(edges, i).next_edge IN
          next # None =>
              /\ next >= 0 /\ next < i
              /\ At(edgeLog, next).source = At(edgeLog, i).source
    /\ \A n \in 0 .. (Len(nodes) - 1) :
          LET chain == ChainFrom(edges, At(nodes, n).first_edge)
              added == EdgesAddedFor(n)
          IN  /\ {chain[k] : k \in DOMAIN chain} = added
              /\ Len(chain) = Cardinality(added)
              /\ \A d \in Directions :
                    Len(EdgesOf(nodes, edges, n, d)) <= Len(chain)
    /\ \A cur \in {None} \cup (0 .. (Len(edges) - 1)), d \in Directions :
          LET r == EdgesNext(edges, cur, d) IN
          /\ r.cur = None \/ r.cur < cur
          /\ r.item = None =>
                LET again == EdgesNext(edges, r.cur, d) IN
                /\ again.item = None
                /\ EdgesNext(edges, again.cur, d).item = None

\* C19 witness: a node with three edges, Outgoing, Incoming, Outgoing: the
\* Incoming iteration skips the newest record, yields one target, and then
\* runs off the oldest record and ends.
C19_Witness ==
    \E n \in 0 .. (Len(nodes) - 1) :
        LET chain == ChainFrom(edges, At(nodes, n).first_edge)
            first == EdgesNext(edges, At(nodes, n).first_edge, "Incoming")
            second == EdgesNext(edges, first.cur, "Incoming")
        IN  /\ Len(chain) = 3
            /\ At(edges, chain[1]).direction = "Outgoing"
            /\ At(edges, chain[2]).direction = "Incoming"
            /\ At(edges, chain[3]).direction = "Outgoing"
            /\ first.item # None /\ first.cur = chain[3]
            /\ second.item = None /\ second.cur = None

\* The nodes made for the package.json of directory d.
NodesFor(d) ==
    {i \in 0 .. (Len(nodes) - 1) : At(nodes, i).data.name = NameOf(d)}

\* The directories with a package.json, below directory d, whose path from d
\* matches one of the workspace patterns of d's package.json.
MatchingChildren(t, d) ==
    {c \in DOMAIN t.manifests :
        /\ c # d
        /\ IsPrefix(d, c)
        /\ GlobSetMatch(t.manifests[d].workspaces, SubSeq(c, Len(d) + 1, Len(c)))}

Yields(seq, x) == \E k \in DOMAIN seq : seq[k] = x

\* C11: the Project built by Project::new has exactly one node per
\* package.json, and for every directory with a package.json that matches a
\* workspace pattern of a parent the pair is linked both ways: the child is
\* yielded by dependents(parent) and the parent by dependencies(child).
C11_MatchedWorkspacesAreLinked ==
    ppc = "built" =>
        /\ Len(nodes) = Cardinality(DOMAIN tree.manifests)
        /\ \A d \in DOMAIN tree.manifests : Cardinality(NodesFor(d)) = 1
        /\ \A d \in DOMAIN tree.manifests : \A c \in MatchingChildren(tree, d) :
              \A parent \in NodesFor(d), child \in NodesFor(c) :
                  /\ Yields(dependents(parent), child)
                  /\ Yields(dependencies(child), parent)

\* C12: a package.json that fails to parse does not abort the discovery: the
\* run goes on and every package.json that parses gets its workspace.
C12_UnparseableManifestIsSkipped ==
    /\ ppc # "panicked"
    /\ ppc = "built" =>
          \A d \in DOMAIN tree.manifests :
              tree.manifests[d].parses => NodesFor(d) # {}

\* How often seq yields x.
Times(seq, x) == Cardinality({k \in DOMAIN seq : seq[k] = x})

\* C18: in the graph of a Project edges come in matched pairs: for all nodes
\* x and y, dependents(x) yields y as often as dependencies(y) yields x.
C18_EdgesComeInPairs ==
    ppc \in {"link", "built"} =>
        \A x, y \in 0 .. (Len(nodes) - 1) :
            Times(dependents(x), y) = Times(dependencies(y), x)

\* C20: workspace discovery by Project::load never recurses without bound: on
\* every tree and every list of patterns, those that resolve to the declaring
\* directory or to an ancestor included, the nesting of load_workspace calls
\* stays within the number of directories that hold a package.json, so the
\* discovery runs to completion or fails with an error.
C20_DiscoveryDepthIsBoundedByTree ==
    Len(callStack) <= Cardinality(DOMAIN tree.manifests)

\* Whether the store exists and its read yields no change entry.
NoChangeEntries ==
    storeExists /\ ~HasInvalidToken(store0) /\ RecordFiles(store0) = {}

\* C21: a version run over an existing store that yields no change entries
\* returns success without discovering packages, and leaves every manifest
\* and every file of the store as it was.
C21_NoChangesIsSuccessWithoutEffect ==
    NoChangeEntries =>
        /\ pc \in {"start", "done"}
        /\ pc = "done" => result = "ok"
        /\ packages = <<>>
        /\ changes = <<>>
        /\ disk = disk0
        /\ \A p \in DOMAIN writes : writes[p] = 0
        /\ store = store0

\* C21 witness: a finished run over a store of two md files, one without a
\* front matter and one with an empty front matter.
C21_Witness ==
    /\ pc = "done"
    /\ result = "ok"
    /\ Cardinality(DOMAIN store0) = 2
    /\ \E f \in DOMAIN store0 : store0[f].md /\ ~store0[f].header
    /\ \E f \in DOMAIN store0 : store0[f].md /\ store0[f].header /\ store0[f].lines = <<>>
    /\ packages = <<>>
    /\ store = store0

\* C22: no change-record file is deleted before the manifest of every package
\* in the bump map has been written; a run in which the bump calculation or a
\* manifest update fails ends with the error and all change-record files
\* still present, the manifests written before the failure staying modified.
C22_NoDeletionBeforeAllWritten ==
    /\ store # store0 =>
          /\ pc \in {"remove", "done"}
          /\ todo = {}
          /\ \A p \in DOMAIN version_bumps : writes[p] = 1
          /\ result \in {"running", "ok"}
    /\ result \in {"invalid_version", "max_iterations"} =>
          /\ pc = "done"
          /\ store = store0
          /\ removeAt = 0
          /\ \A p \in DOMAIN disk : writes[p] = 0 => disk[p] = disk0[p]

\* C22 witness: a run that wrote one manifest, then failed on the unparsable
\* version of another package, with every change-record file still there.
C22_Witness ==
    /\ pc = "done"
    /\ result = "invalid_version"
    /\ \E p \in DOMAIN disk : writes[p] = 1 /\ disk[p] # disk0[p]
    /\ store0 # <<>>
    /\ store = store0

\* C23: a successful add_edge(s, t, d) prepends t to the sequence edges(s, d)
\* yields and changes nothing else: for every other node in both directions,
\* and for s in the other direction, edges yields what it yielded before, and
\* the number of nodes and every payload are as before; add_node changes no
\* existing node's payload or edge sequences.
C23_AddEdgeAndAddNodeFrame ==
    [][ /\ edgeLog' # edgeLog =>
              LET call == edgeLog'[Len(edgeLog')] IN
              /\ Len(nodes') = Len(nodes)
              /\ \A n \in 0 .. (Len(nodes) - 1) :
                    /\ At(nodes', n).data = At(nodes, n).data
                    /\ \A d \in Directions :
                          EdgesOf(nodes', edges', n, d) =
                              IF n = call.source /\ d = call.direction
                              THEN <<call.target>> \o EdgesOf(nodes, edges, n, d)
                              ELSE EdgesOf(nodes, edges, n, d)
        /\ nodeLog' # nodeLog =>
              /\ Len(nodes') = Len(nodes) + 1
              /\ \A n \in 0 .. (Len(nodes) - 1) :
                    /\ At(nodes', n).data = At(nodes, n).data
                    /\ \A d \in Directions :
                          EdgesOf(nodes', edges', n, d) = EdgesOf(nodes, edges, n, d) ]_vars

\* C23 witness: the last call was a successful add_edge for a node that has an
\* edge in the other direction, in a graph whose other node has an edge too.
C23_Witness ==
    /\ lastOp.op = "add_edge"
    /\ ~lastOp.fault
    /\ Len(nodes) = 2
    /\ Len(edgeLog) >= 1
    /\ LET call == edgeLog[Len(edgeLog)]
           other == 1 - call.source
       IN  /\ Len(EdgesOf(nodes, edges, call.source, call.direction)) = 1
           /\ \E d \in Directions :
                 d # call.direction /\ Len(EdgesOf(nodes, edges, call.source, d)) >= 1
           /\ \E d \in Directions : Len(EdgesOf(nodes, edges, other, d)) >= 1

====
